---- MODULE Spec2Model ----
(***************************************************************************)
(* The notebook wikidata_pywikibot_sparql_work.ipynb as a state machine.   *)
(* The code cells run in document order: the print loop over the static    *)
(* list viaf_id, the loop building a two-column table, the loop with the   *)
(* optional Wikipedia link, pd.read_csv, the extraction of the VIAF_ID     *)
(* column, and the file-driven loop with its try/except KeyError.          *)
(* An exception that leaves a cell stops the run (error # "none").         *)
(***************************************************************************)
EXTENDS Integers, Sequences, FiniteSets, TLC

VARIABLES
    cell,            \* the code cell being executed
    pc,              \* position inside the cell
    error,           \* "none", or the exception that left the cell
    remote,          \* the remote dataset: literal -> sequence of solutions
    sparql,          \* the module-level SPARQLWrapper object
    inflight,        \* queries sent and not yet answered
    viaf_id,         \* the static list
    df1,             \* the table read from the csv file
    viaf_ids,        \* the list extracted from df1
    i,               \* number of list elements the for loop has taken
    f,               \* loop variable of the outer for
    result1,         \* the converted response
    j,               \* number of bindings the inner for has taken
    importantPeople, \* the list of row dicts
    df,              \* pd.DataFrame(importantPeople)
    printed,         \* lines written by print
    origin,          \* history: for each row of importantPeople, the cell, i and binding it came from
    queryLog,        \* history: every query sent, with its cell and position
    respLog,         \* history: every response converted, with its query
    skipped          \* history: <<i, j>> of every binding the except clause passed over

vars == <<cell, pc, error, remote, sparql, inflight, viaf_id, df1, viaf_ids, i, f,
          result1, j, importantPeople, df, printed, origin, queryLog, respLog, skipped>>

(* ------------------------------ bounds --------------------------------- *)

MaxRows == 3

(* ---------------------------- the data --------------------------------- *)

\* pandas' missing-value cell, and a cell holding a string
NaN == [kind |-> "nan", val |-> ""]
StrCell(s) == [kind |-> "str", val |-> s]

\* the list literal of the print-loop cell
StaticList == <<"52010985", "34562701", "108815043", "76323201", "2487523", "55588240">>

\* identifier values the csv column may hold
FileIds == {"34562701", "135197943", "92278621"}
Cells == {NaN} \cup {StrCell(s) : s \in FileIds}

Literals == {StaticList[k] : k \in DOMAIN StaticList} \cup FileIds \cup {"nan"}

\* one term of a SPARQL JSON binding
Term(s) == [value |-> s]

\* solutions of the remote dataset, as the JSON bindings of the widest query
Full(q, name, url) ==
    [k \in {"person", "personLabel", "wparticle"} |->
        IF k = "person" THEN Term(q) ELSE IF k = "personLabel" THEN Term(name) ELSE Term(url)]
NoLink(q, name) ==
    [k \in {"person", "personLabel"} |-> IF k = "person" THEN Term(q) ELSE Term(name)]
NoLabel(q, url) ==
    [k \in {"person", "wparticle"} |-> IF k = "person" THEN Term(q) ELSE Term(url)]

Obama   == Full("http://www.wikidata.org/entity/Q76", "Barack Obama",
                "https://en.wikipedia.org/wiki/Barack_Obama")
York    == Full("http://www.wikidata.org/entity/Q1609351", "Herbert York",
                "https://en.wikipedia.org/wiki/Herbert_York")
YorkNoLink == NoLink("http://www.wikidata.org/entity/Q1609351", "Herbert York")
Stroll  == Full("http://www.wikidata.org/entity/Q4829518", "Avrum Stroll",
                "https://en.wikipedia.org/wiki/Avrum_Stroll")
Revelle == Full("http://www.wikidata.org/entity/Q942808", "Roger Revelle",
                "https://en.wikipedia.org/wiki/Roger_Revelle")
\* 135197943, 92278621 and the literal "nan" are in the csv column but their
\* answers are not shown by the notebook: sample solutions of each shape
SeriesA == Full("http://www.wikidata.org/entity/Q265538", "World Series",
                "https://en.wikipedia.org/wiki/World_Series")
SeriesB == NoLink("http://www.wikidata.org/entity/Q265539", "World Series (Baseball)")
SeriesC == NoLabel("http://www.wikidata.org/entity/Q265538",
                   "https://en.wikipedia.org/wiki/World_Series")
Newmark == Full("http://www.wikidata.org/entity/Q6525730", "Leonard Newmark",
                "https://en.wikipedia.org/wiki/Leonard_Newmark")
NewmarkNoLink == NoLink("http://www.wikidata.org/entity/Q6525730", "Leonard Newmark")
Spurious == Full("http://www.wikidata.org/entity/Q0", "nan", "https://en.wikipedia.org/wiki/NaN")

\* the answers the remote dataset may hold for the identifiers whose answer varies
YorkAnswers    == {<<York>>, <<YorkNoLink>>}
SeriesAnswers  == {<<>>, <<SeriesA>>, <<SeriesB>>, <<SeriesA, SeriesB>>,
                   <<SeriesB, SeriesA>>, <<SeriesC>>}
NewmarkAnswers == {<<>>, <<Newmark>>, <<NewmarkNoLink>>}
NanAnswers     == {<<>>, <<Spurious>>}

Dataset(york, series, newmark, nan) ==
    [lit \in Literals |->
        CASE lit = "52010985"  -> <<Obama>>
          [] lit = "34562701"  -> york
          [] lit = "76323201"  -> <<Stroll>>
          [] lit = "55588240"  -> <<Revelle>>
          [] lit = "135197943" -> series
          [] lit = "92278621"  -> newmark
          [] lit = "nan"       -> nan
          [] OTHER             -> <<>>]

Datasets == {Dataset(a, b, c, d) : a \in YorkAnswers, b \in SeriesAnswers,
                                   c \in NewmarkAnswers, d \in NanAnswers}

\* the tables pd.read_csv may return: column name -> cells, all columns of one length
ColumnsOfLen(n) == [1..n -> Cells]
LabelColumn(n) == [k \in 1..n |-> StrCell("name")]
TableWith(col) ==
    [c \in {"AuthoritativeLabel", "VIAF_ID"} |->
        IF c = "VIAF_ID" THEN col ELSE LabelColumn(Len(col))]
TableWithout(n) == [c \in {"AuthoritativeLabel"} |-> LabelColumn(n)]
Tables == {TableWith(col) : col \in UNION {ColumnsOfLen(n) : n \in 0..MaxRows}}
          \cup {TableWithout(n) : n \in 0..MaxRows}

(* ------------------------- the code's functions ------------------------ *)

\* SPARQLWrapper(endpoint): the object as constructed
DefaultQuery == [select |-> {}, literal |-> ""]
SPARQLWrapper(endpoint) ==
    [endpoint |-> endpoint, queryString |-> DefaultQuery, returnFormat |-> "xml"]

\* the query text built by string concatenation around f: the variables it
\* selects and the literal it embeds
QueryString(c, id) ==
    IF c \in {"print", "table"}
    THEN [select |-> {"person", "personLabel"}, literal |-> id]
    ELSE [select |-> {"person", "personLabel", "wparticle"}, literal |-> id]

\* the endpoint's answer to a query: the solutions for the literal, each
\* projected on the selected variables
Project(sol, select) == [k \in (DOMAIN sol) \cap select |-> sol[k]]
Evaluate(ds, q) ==
    IF q.literal \in DOMAIN ds
    THEN [k \in 1..Len(ds[q.literal]) |-> Project(ds[q.literal][k], q.select)]
    ELSE <<>>

\* a SELECT leaves the dataset as it is
RemoteAfterQuery_Consume(ds, q) ==
    IF q.literal \in DOMAIN ds THEN [ds EXCEPT ![q.literal] = <<>>] ELSE ds
RemoteAfterQuery(ds, q) == ds

\* sparql.setQuery(queryString): the client keeps the query it will send
SetQuery_Once(client, q) ==
    IF client.queryString = DefaultQuery THEN [client EXCEPT !.queryString = q] ELSE client
SetQuery(client, q) == [client EXCEPT !.queryString = q]

\* sparql.setReturnFormat(JSON)
SetReturnFormat(client, format) == [client EXCEPT !.returnFormat = format]

\* sparql.query().convert() with the JSON return format
Convert(bindings) == [results |-> [bindings |-> bindings]]

\* result1["results"]["bindings"]
Bindings_Placeholder(r) ==
    IF r.results.bindings = <<>>
    THEN <<[k \in {"person", "personLabel", "wparticle"} |-> Term("")]>>
    ELSE r.results.bindings
Bindings(r) == r.results.bindings

\* the keys the dict literal of the cell's append reads from a binding
NeededKeys(c) ==
    IF c \in {"print", "table"} THEN {"person", "personLabel"}
    ELSE {"person", "personLabel", "wparticle"}

\* evaluating the dict literal raises KeyError when a key is missing
RaisesKeyError(c, result) == ~(NeededKeys(c) \subseteq DOMAIN result)

\* the dict literal appended for a binding
BuildRow(c, result) ==
    IF c = "table"
    THEN [Wikidata_URI |-> result["person"].value, name |-> result["personLabel"].value]
    ELSE [Wikidata_URI |-> result["person"].value, name |-> result["personLabel"].value,
          wikipedia_URL |-> result["wparticle"].value]

\* list.append
AppendRow_Front(list, x) == <<x>> \o list
AppendRow_Overwrite(list, x) == <<x>>
AppendRow(list, x) == Append(list, x)

\* astype(str) on one cell
AsStr(c) == IF c.kind = "nan" THEN "nan" ELSE c.val

\* df1['VIAF_ID']: KeyError when the table has no such column
GetColumn_Default(t, name) ==
    IF name \in DOMAIN t THEN [ok |-> TRUE, col |-> t[name]]
    ELSE [ok |-> TRUE, col |-> [k \in 1..Len(t["AuthoritativeLabel"]) |-> NaN]]
GetColumn(t, name) ==
    IF name \in DOMAIN t THEN [ok |-> TRUE, col |-> t[name]]
    ELSE [ok |-> FALSE, col |-> <<>>]

\* .astype(str).values.tolist()
RECURSIVE Unique(_)
Unique(s) ==
    IF s = <<>> THEN <<>>
    ELSE LET front == Unique(SubSeq(s, 1, Len(s) - 1))
             last == s[Len(s)]
         IN IF \E k \in DOMAIN front : front[k] = last THEN front ELSE Append(front, last)
ToStrList_Unique(col) == Unique([k \in 1..Len(col) |-> AsStr(col[k])])
ToStrList_DropNa(col) ==
    LET kept == SelectSeq(col, LAMBDA c : c.kind # "nan")
    IN [k \in 1..Len(kept) |-> AsStr(kept[k])]
ToStrList(col) == [k \in 1..Len(col) |-> AsStr(col[k])]

\* pd.DataFrame(list of dicts): one row per dict, in list order
DataFrame_DropDuplicates(rows) == Unique(rows)
DataFrame(rows) == rows

\* the list the cell's for loop iterates
LoopList(c) == IF c = "file" THEN viaf_ids ELSE viaf_id

\* the cell that follows in the notebook
NextCell(c) ==
    CASE c = "print" -> "table"
      [] c = "table" -> "link"
      [] c = "link"  -> "read_csv"
      [] c = "read_csv" -> "extract"
      [] c = "extract" -> "file"
      [] OTHER -> "done"

LoopCells == {"print", "table", "link", "file"}
TableCells == {"table", "link", "file"}

(* ------------------------------ the run -------------------------------- *)

Endpoint == "https://query.wikidata.org/sparql"

\* the state after the single-query cell: the client exists, holds that
\* cell's query and the JSON return format; nothing else is bound yet
Init ==
    /\ cell = "print"
    /\ pc = "start"
    /\ error = "none"
    /\ remote \in Datasets
    /\ sparql = [endpoint |-> Endpoint, queryString |-> QueryString("print", "52010985"),
                 returnFormat |-> "json"]
    /\ inflight = <<>>
    /\ viaf_id = <<>>
    /\ df1 = <<>>
    /\ viaf_ids = <<>>
    /\ i = 0
    /\ f = ""
    /\ result1 = Convert(<<>>)
    /\ j = 0
    /\ importantPeople = <<>>
    /\ df = <<>>
    /\ printed = <<>>
    /\ origin = <<>>
    /\ queryLog = <<>>
    /\ respLog = <<>>
    /\ skipped = {}

Running == error = "none"

\* sparql = SPARQLWrapper(...); viaf_id = [...]
StartPrintCell ==
    /\ Running /\ cell = "print" /\ pc = "start"
    /\ sparql' = SPARQLWrapper(Endpoint)
    /\ viaf_id' = StaticList
    /\ i' = 0
    /\ pc' = "for"
    /\ UNCHANGED <<cell, error, remote, inflight, df1, viaf_ids, f, result1, j,
                   importantPeople, df, printed, origin, queryLog, respLog, skipped>>

\* the loop started on the row list the previous cell left
StartTableCell_NoReset ==
    /\ Running /\ cell \in TableCells /\ pc = "start"
    /\ skipped' = {}
    /\ i' = 0
    /\ pc' = "for"
    /\ UNCHANGED <<cell, error, remote, sparql, inflight, viaf_id, df1, viaf_ids, f,
                   result1, j, importantPeople, df, printed, origin, queryLog, respLog>>

\* importantPeople = []
StartTableCell ==
    /\ Running /\ cell \in TableCells /\ pc = "start"
    /\ importantPeople' = <<>>
    /\ origin' = <<>>
    /\ skipped' = {}
    /\ i' = 0
    /\ pc' = "for"
    /\ UNCHANGED <<cell, error, remote, sparql, inflight, viaf_id, df1, viaf_ids, f,
                   result1, j, df, printed, queryLog, respLog>>

\* the iteration calling sparql.query() twice, keeping the second response
SendQuery_Twice ==
    /\ Running /\ cell \in LoopCells /\ pc = "for"
    /\ i < Len(LoopList(cell))
    /\ LET id == LoopList(cell)[i + 1]
           queryString == QueryString(cell, id)
           entry == [cell |-> cell, pos |-> i + 1, query |-> queryString]
       IN /\ i' = i + 1
          /\ f' = id
          /\ sparql' = [sparql EXCEPT !.queryString = queryString, !.returnFormat = "json"]
          /\ inflight' = Append(inflight, queryString)
          /\ queryLog' = queryLog \o <<entry, entry>>
    /\ pc' = "query"
    /\ UNCHANGED <<cell, error, remote, viaf_id, df1, viaf_ids, result1, j,
                   importantPeople, df, printed, origin, respLog, skipped>>

\* for f in ...: queryString = ...; sparql.setQuery(queryString);
\* sparql.setReturnFormat(JSON); sparql.query() sends the request
SendQuery ==
    /\ Running /\ cell \in LoopCells /\ pc = "for"
    /\ i < Len(LoopList(cell))
    /\ LET id == LoopList(cell)[i + 1]
           queryString == QueryString(cell, id)
       IN /\ i' = i + 1
          /\ f' = id
          /\ sparql' = SetReturnFormat(SetQuery(sparql, queryString), "json")
          /\ inflight' = Append(inflight, sparql'.queryString)
          /\ queryLog' = Append(queryLog, [cell |-> cell, pos |-> i + 1,
                                           query |-> sparql'.queryString])
    /\ pc' = "query"
    /\ UNCHANGED <<cell, error, remote, viaf_id, df1, viaf_ids, result1, j,
                   importantPeople, df, printed, origin, respLog, skipped>>

\* result1 = sparql.query().convert(); in the print cell also print(queryString)
\* and the "No match" line
ReceiveResponse ==
    /\ Running /\ pc = "query" /\ inflight # <<>>
    /\ LET q == Head(inflight)
           r == Convert(Evaluate(remote, q))
       IN /\ result1' = r
          /\ remote' = RemoteAfterQuery(remote, q)
          /\ respLog' = Append(respLog, [cell |-> cell, pos |-> i, query |-> q,
                                         bindings |-> r.results.bindings])
          /\ printed' = IF cell = "print"
                        THEN printed \o <<q.literal>>
                             \o (IF Len(r.results.bindings) = 0 THEN <<"No match">> ELSE <<>>)
                        ELSE printed
    /\ inflight' = Tail(inflight)
    /\ j' = 0
    /\ pc' = "bind"
    /\ UNCHANGED <<cell, error, sparql, viaf_id, df1, viaf_ids, i, f,
                   importantPeople, df, origin, queryLog, skipped>>

\* sparql.query() raises (network failure, non-success status) or convert()
\* raises (payload not parseable): no handler encloses the call
QueryRaises ==
    /\ Running /\ pc = "query" /\ inflight # <<>>
    /\ \E e \in {"TransportError", "ProtocolError"} : error' = e
    /\ inflight' = Tail(inflight)
    /\ pc' = "raised"
    /\ UNCHANGED <<cell, remote, sparql, viaf_id, df1, viaf_ids, i, f, result1, j,
                   importantPeople, df, printed, origin, queryLog, respLog, skipped>>

HasBinding == pc = "bind" /\ j < Len(Bindings(result1))
Result == Bindings(result1)[j + 1]

\* print(result["personLabel"]["value"]); print(result["person"]["value"])
PrintBinding ==
    /\ Running /\ cell = "print" /\ HasBinding
    /\ ~RaisesKeyError(cell, Result)
    /\ printed' = printed \o <<Result["personLabel"].value, Result["person"].value>>
    /\ j' = j + 1
    /\ UNCHANGED <<cell, pc, error, remote, sparql, inflight, viaf_id, df1, viaf_ids, i, f,
                   result1, importantPeople, df, origin, queryLog, respLog, skipped>>

\* importantPeople.append({...})
AppendBinding ==
    /\ Running /\ cell \in TableCells /\ HasBinding
    /\ ~RaisesKeyError(cell, Result)
    /\ importantPeople' = AppendRow(importantPeople, BuildRow(cell, Result))
    /\ origin' = AppendRow(origin, [cell |-> cell, pos |-> i, binding |-> j + 1])
    /\ j' = j + 1
    /\ UNCHANGED <<cell, pc, error, remote, sparql, inflight, viaf_id, df1, viaf_ids, i, f,
                   result1, df, printed, queryLog, respLog, skipped>>

\* the KeyError leaving the file-driven loop
PassKeyError_Reraise ==
    /\ Running /\ cell = "file" /\ HasBinding
    /\ RaisesKeyError(cell, Result)
    /\ error' = "KeyError"
    /\ pc' = "raised"
    /\ UNCHANGED <<cell, remote, sparql, inflight, viaf_id, df1, viaf_ids, i, f, result1, j,
                   importantPeople, df, printed, origin, queryLog, respLog, skipped>>

\* the except clause appending what the binding has, "" for what it lacks
PassKeyError_AppendPartial ==
    /\ Running /\ cell = "file" /\ HasBinding
    /\ RaisesKeyError(cell, Result)
    /\ importantPeople' =
          AppendRow(importantPeople,
                    [Wikidata_URI |-> Result["person"].value,
                     name |-> IF "personLabel" \in DOMAIN Result
                              THEN Result["personLabel"].value ELSE "",
                     wikipedia_URL |-> IF "wparticle" \in DOMAIN Result
                                       THEN Result["wparticle"].value ELSE ""])
    /\ origin' = AppendRow(origin, [cell |-> cell, pos |-> i, binding |-> j + 1])
    /\ j' = j + 1
    /\ UNCHANGED <<cell, pc, error, remote, sparql, inflight, viaf_id, df1, viaf_ids, i, f,
                   result1, df, printed, queryLog, respLog, skipped>>

\* except KeyError: pass
PassKeyError ==
    /\ Running /\ cell = "file" /\ HasBinding
    /\ RaisesKeyError(cell, Result)
    /\ skipped' = skipped \cup {<<i, j + 1>>}
    /\ j' = j + 1
    /\ UNCHANGED <<cell, pc, error, remote, sparql, inflight, viaf_id, df1, viaf_ids, i, f,
                   result1, importantPeople, df, printed, origin, queryLog, respLog>>

\* the loops without try: the KeyError leaves the cell
RaiseKeyError ==
    /\ Running /\ cell \in {"print", "table", "link"} /\ HasBinding
    /\ RaisesKeyError(cell, Result)
    /\ error' = "KeyError"
    /\ pc' = "raised"
    /\ UNCHANGED <<cell, remote, sparql, inflight, viaf_id, df1, viaf_ids, i, f, result1, j,
                   importantPeople, df, printed, origin, queryLog, respLog, skipped>>

\* the inner for left after its first binding
BindingsDone_Break ==
    /\ Running /\ cell \in LoopCells /\ pc = "bind"
    /\ j >= 1 \/ j = Len(Bindings(result1))
    /\ pc' = "for"
    /\ UNCHANGED <<cell, error, remote, sparql, inflight, viaf_id, df1, viaf_ids, i, f,
                   result1, j, importantPeople, df, printed, origin, queryLog, respLog,
                   skipped>>

\* the inner for is exhausted
BindingsDone ==
    /\ Running /\ cell \in LoopCells /\ pc = "bind"
    /\ j = Len(Bindings(result1))
    /\ pc' = "for"
    /\ UNCHANGED <<cell, error, remote, sparql, inflight, viaf_id, df1, viaf_ids, i, f,
                   result1, j, importantPeople, df, printed, origin, queryLog, respLog,
                   skipped>>

\* the print cell's for is exhausted
PrintLoopDone ==
    /\ Running /\ cell = "print" /\ pc = "for"
    /\ i = Len(LoopList(cell))
    /\ cell' = NextCell(cell)
    /\ pc' = "start"
    /\ UNCHANGED <<error, remote, sparql, inflight, viaf_id, df1, viaf_ids, i, f, result1, j,
                   importantPeople, df, printed, origin, queryLog, respLog, skipped>>

\* df = pd.DataFrame(importantPeople), after the for is exhausted
MakeFrame ==
    /\ Running /\ cell \in TableCells /\ pc = "for"
    /\ i = Len(LoopList(cell))
    /\ df' = DataFrame(importantPeople)
    /\ cell' = NextCell(cell)
    /\ pc' = "start"
    /\ UNCHANGED <<error, remote, sparql, inflight, viaf_id, df1, viaf_ids, i, f, result1, j,
                   importantPeople, printed, origin, queryLog, respLog, skipped>>

\* df1 = pd.read_csv(viaf_data)
ReadCsv ==
    /\ Running /\ cell = "read_csv" /\ pc = "start"
    /\ df1' \in Tables
    /\ cell' = NextCell(cell)
    /\ UNCHANGED <<pc, error, remote, sparql, inflight, viaf_id, viaf_ids, i, f, result1, j,
                   importantPeople, df, printed, origin, queryLog, respLog, skipped>>

\* viaf_ids = df1['VIAF_ID'].astype(str).values.tolist()
Extract ==
    /\ Running /\ cell = "extract" /\ pc = "start"
    /\ GetColumn(df1, "VIAF_ID").ok
    /\ viaf_ids' = ToStrList(GetColumn(df1, "VIAF_ID").col)
    /\ cell' = NextCell(cell)
    /\ UNCHANGED <<pc, error, remote, sparql, inflight, viaf_id, df1, i, f, result1, j,
                   importantPeople, df, printed, origin, queryLog, respLog, skipped>>

\* df1['VIAF_ID'] raises KeyError: the column is not in the table
ExtractRaises ==
    /\ Running /\ cell = "extract" /\ pc = "start"
    /\ ~GetColumn(df1, "VIAF_ID").ok
    /\ error' = "KeyError"
    /\ pc' = "raised"
    /\ UNCHANGED <<cell, remote, sparql, inflight, viaf_id, df1, viaf_ids, i, f, result1, j,
                   importantPeople, df, printed, origin, queryLog, respLog, skipped>>

Next ==
    \/ StartPrintCell
    \/ StartTableCell
    \/ SendQuery
    \/ ReceiveResponse
    \/ QueryRaises
    \/ PrintBinding
    \/ AppendBinding
    \/ PassKeyError
    \/ RaiseKeyError
    \/ BindingsDone
    \/ PrintLoopDone
    \/ MakeFrame
    \/ ReadCsv
    \/ Extract
    \/ ExtractRaises

Spec == Init /\ [][Next]_vars

\* the cells run one statement after another and every request is answered or
\* raises: an enabled step is eventually taken
FairSpec == Spec /\ WF_vars(Next)

TypeOK ==
    /\ cell \in {"print", "table", "link", "read_csv", "extract", "file", "done"}
    /\ pc \in {"start", "for", "query", "bind", "raised"}
    /\ error \in {"none", "TransportError", "ProtocolError", "KeyError"}
    /\ Len(inflight) <= 1
    /\ (cell \in LoopCells /\ pc # "start") => i \in 0..Len(LoopList(cell))
    /\ Len(origin) = Len(importantPeople)
    /\ cell = "done" => (pc = "start" /\ error = "none")

(* ------------------------------ helpers -------------------------------- *)

LookupErrors == {"TransportError", "ProtocolError"}

\* the side list of failed identifiers the file-driven cell hands to its caller:
\* the except clause records nothing and the cell binds no such list
failedList == <<>>

\* the responses converted so far in the cell now running
CellResponses == {r \in DOMAIN respLog : respLog[r].cell = cell}

(* ------------------------------- claims -------------------------------- *)

\* C1: in the file-driven pipeline the missing-value sentinel is never an
\* element of the extracted identifier list and never the literal of a query
\* that is sent.
C1_NoSentinelQuery ==
    /\ \A k \in DOMAIN viaf_ids : viaf_ids[k] # "nan"
    /\ \A k \in DOMAIN queryLog :
          queryLog[k].cell = "file" => queryLog[k].query.literal # "nan"

\* C2: a network failure, non-success status or unparseable response in the
\* lookup of one identifier never ends the batch: the file-driven loop is never
\* stopped by a lookup error while identifiers remain to be looked up.
C2_LookupFailureDoesNotStopBatch ==
    ~(cell = "file" /\ pc = "raised" /\ error \in LookupErrors
         /\ i < Len(viaf_ids))

\* C3: a binding that has the entity and the label but lacks the optional
\* secondary link still gets its row appended, with the link field empty; it
\* is neither discarded nor the cause of an exception.
C3_PartialRowAppended ==
    [][(Running /\ cell \in {"link", "file"} /\ HasBinding
           /\ DOMAIN Result = {"person", "personLabel"})
       => /\ error' = "none"
          /\ importantPeople' =
                Append(importantPeople,
                       [Wikidata_URI |-> Result["person"].value,
                        name |-> Result["personLabel"].value,
                        wikipedia_URL |-> ""])]_vars

\* C4: every identifier whose lookup failed or whose binding was passed over
\* is recorded in the side list of failed identifiers handed to the caller.
C4_FailuresRecorded ==
    /\ \A s \in skipped :
          cell \in {"file", "done"} =>
             \E k \in DOMAIN failedList : failedList[k].id = viaf_ids[s[1]]
    /\ (cell = "file" /\ error \in LookupErrors) =>
          \E k \in DOMAIN failedList : failedList[k].id = f

\* C5: an identifier for which the endpoint returned zero bindings contributes
\* no row: no row of the table, complete or with empty fields, comes from a
\* position whose response was empty.
C5_NoRowForEmptyResponse ==
    \A r \in DOMAIN respLog :
       respLog[r].bindings = <<>> =>
          \A k \in DOMAIN origin :
             ~(origin[k].cell = respLog[r].cell /\ origin[k].pos = respLog[r].pos)

\* C5 witness: the file-driven loop has finished an identifier with an empty
\* response while rows of other identifiers are in the table.
C5_Witness ==
    /\ cell = "file" /\ pc = "for" /\ importantPeople # <<>>
    /\ \E r \in CellResponses : respLog[r].bindings = <<>> /\ respLog[r].pos < i

\* the response converted for a row's identifier
ResponseOf(o) ==
    {r \in DOMAIN respLog : respLog[r].cell = o.cell /\ respLog[r].pos = o.pos}

RECURSIVE SumBindings(_, _)
SumBindings(list, n) ==
    IF n = 0 THEN 0
    ELSE SumBindings(list, n - 1) + Len(Evaluate(remote, QueryString("file", list[n])))

\* C7: the final table has exactly one row per (identifier position, binding)
\* pair: its row count is the sum over the input positions of the number of
\* bindings the endpoint returned for that identifier.
C7_OneRowPerBinding ==
    cell = "done" => Len(df) = SumBindings(viaf_ids, Len(viaf_ids))

\* the queries the file-driven loop has sent, in order
FileQueries == SelectSeq(queryLog, LAMBDA e : e.cell = "file")

\* the rows appended by the file-driven loop for input position p
RowIndices == [k \in 1..Len(origin) |-> k]
RowsFrom(p) ==
    LET ks == SelectSeq(RowIndices, LAMBDA k : origin[k].cell = "file" /\ origin[k].pos = p)
    IN [n \in 1..Len(ks) |-> importantPeople[ks[n]]]

\* C8: duplicates are not removed: the file-driven loop sends one query per
\* row of the source column, the p-th for the string of the p-th cell whether
\* or not that value occurred before, and in the finished run two positions
\* holding the same value have each appended the same rows.
C8_DuplicatesLookedUpAgain ==
    (cell = "file" /\ pc # "start") \/ cell = "done" =>
       LET col == df1["VIAF_ID"]
       IN /\ Len(FileQueries) = i
          /\ i <= Len(col)
          /\ \A p \in 1..i : FileQueries[p].query.literal = AsStr(col[p])
          /\ cell = "done" =>
                /\ i = Len(col)
                /\ \A p, q \in 1..Len(col) : col[p] = col[q] => RowsFrom(p) = RowsFrom(q)

\* C8 witness: a finished run over a column holding one value twice, each
\* occurrence having appended rows.
C8_Witness ==
    /\ cell = "done"
    /\ \E p, q \in DOMAIN df1["VIAF_ID"] :
          /\ p < q /\ df1["VIAF_ID"][p] = df1["VIAF_ID"][q]
          /\ RowsFrom(p) # <<>> /\ RowsFrom(q) # <<>>

\* the table was read and has no VIAF_ID column
ColumnMissing == cell \in {"extract", "file", "done"} /\ "VIAF_ID" \notin DOMAIN df1

\* C9: when the table read from the file has no identifier column, the
\* extraction raises before any query of the file-driven loop is sent and
\* before any row is appended by it: the run stays in the extraction cell, where
\* the only step is the KeyError.
C9_MissingColumnFailsFirst ==
    ColumnMissing =>
       /\ cell = "extract"
       /\ viaf_ids = <<>>
       /\ \A k \in DOMAIN queryLog : queryLog[k].cell # "file"
       /\ \A k \in DOMAIN origin : origin[k].cell # "file"
       /\ inflight = <<>>
       /\ error \in {"none", "KeyError"}
       /\ error = "none" => (ENABLED ExtractRaises /\ ~ENABLED Extract)

\* C9 witness: the extraction has raised on a table without the column.
C9_Witness == ColumnMissing /\ pc = "raised" /\ error = "KeyError"

C11_UnlabelledRowAppended ==
    [][(Running /\ cell \in TableCells /\ HasBinding
           /\ "person" \in DOMAIN Result /\ "personLabel" \notin DOMAIN Result)
       => /\ error' = "none"
          /\ Len(importantPeople') = Len(importantPeople) + 1
          /\ importantPeople'[Len(importantPeople')].Wikidata_URI = Result["person"].value]_vars

\* the bindings of a logged response that were appended or passed over
Accounted(r) ==
    Cardinality({k \in DOMAIN origin : origin[k].cell = r.cell /\ origin[k].pos = r.pos})
    + Cardinality({s \in skipped : r.cell = "file" /\ s[1] = r.pos})

\* C12: lookups are serialized: at most one query is in flight, and a query is
\* sent only when none is in flight, every earlier query has been answered, and
\* every binding of the previous response has been taken (appended or passed
\* over).
C12_LookupsSerialized ==
    [][/\ Len(inflight') <= 1
       /\ Len(queryLog') > Len(queryLog) =>
             /\ inflight = <<>>
             /\ Len(respLog) = Len(queryLog)
             /\ j = Len(Bindings(result1))
             /\ (respLog # <<>> /\ respLog[Len(respLog)].cell = cell /\ cell \in TableCells)
                   => Accounted(respLog[Len(respLog)])
                         = Len(respLog[Len(respLog)].bindings)]_vars

\* C12 witness: the file-driven loop has a query in flight for a later position
\* after a response of two bindings, one appended and one passed over.
C12_Witness ==
    /\ cell = "file" /\ pc = "query" /\ inflight # <<>> /\ i >= 2
    /\ skipped # {} /\ importantPeople # <<>>
    /\ Len(respLog[Len(respLog)].bindings) = 2

\* s is an initial segment of t
IsPrefix(s, t) == Len(s) <= Len(t) /\ \A k \in DOMAIN s : s[k] = t[k]

\* the for of the running cell has taken every identifier and every binding
Exhausted == cell \in TableCells /\ pc = "for" /\ i = Len(LoopList(cell))

\* C13: within a run (after the cell's importantPeople = []) the table is
\* append-only: every step leaves the rows it had in place, in order, and once
\* the identifier sequence is exhausted no step changes the table.
C13_AppendOnlyThenFrozen ==
    [][/\ pc # "start" => IsPrefix(importantPeople, importantPeople')
       /\ (Exhausted \/ cell = "done") => importantPeople' = importantPeople]_vars

\* C13 witness: the file-driven run has ended with at least two rows, the
\* projection taken after the sequence was exhausted.
C13_Witness ==
    /\ cell = "done" /\ Len(importantPeople) >= 2 /\ df = importantPeople
    /\ Len(viaf_ids) >= 2

\* C14: the projection df = pd.DataFrame(importantPeople) is taken only when
\* the for has exhausted the identifier sequence with no query in flight; it
\* yields the accumulated rows, all of them and in order, and leaves the rows
\* and every other variable of the pipeline as they were.
C14_ProjectionAfterLoop ==
    [][(df' # df \/ (cell \in TableCells /\ cell' # cell)) =>
          /\ Exhausted
          /\ inflight = <<>>
          /\ Len(SelectSeq(queryLog, LAMBDA e : e.cell = cell)) = Len(LoopList(cell))
          /\ df' = importantPeople
          /\ UNCHANGED <<importantPeople, remote, sparql, inflight, viaf_id, df1, viaf_ids,
                         i, f, result1, j, printed, error>>]_vars

\* C14 witness: the file-driven run has ended; its projection holds the rows
\* of a column with a repeated identifier.
C14_Witness ==
    /\ cell = "done" /\ df = importantPeople
    /\ \E a, b \in DOMAIN df : a < b /\ df[a] = df[b]

\* every binding of every response of the file-driven loop was appended or
\* passed over
FileBindingsAllTaken ==
    \A r \in DOMAIN respLog :
       respLog[r].cell = "file" =>
          \A b \in DOMAIN respLog[r].bindings :
             \/ <<respLog[r].pos, b>> \in skipped
             \/ \E k \in DOMAIN origin :
                   /\ origin[k].cell = "file" /\ origin[k].pos = respLog[r].pos
                   /\ origin[k].binding = b

\* C15: in the file-driven loop a KeyError raised while building a row is
\* swallowed: the step leaves the table and the error state as they were and
\* moves to the next binding of the same response, the loop then goes on to
\* the remaining identifiers, and a run that reaches its end has taken every
\* binding of every identifier.
C15_KeyErrorSwallowed ==
    [][/\ (Running /\ cell = "file" /\ HasBinding /\ RaisesKeyError(cell, Result)) =>
             /\ error' = "none"
             /\ importantPeople' = importantPeople
             /\ cell' = "file" /\ pc' = "bind" /\ i' = i /\ j' = j + 1
             /\ result1' = result1
       /\ (cell = "file" /\ pc = "bind" /\ skipped # {} /\ pc' = "for") =>
             j = Len(Bindings(result1))
       /\ cell' = "done" =>
             /\ Len(SelectSeq(respLog', LAMBDA e : e.cell = "file")) = Len(viaf_ids')
             /\ FileBindingsAllTaken']_vars

\* C15 witness: a finished run in which a binding was passed over, a later
\* binding of the same identifier was appended, and a later identifier
\* appended a row too.
C15_Witness ==
    /\ cell = "done"
    /\ \E s \in skipped :
          /\ \E k \in DOMAIN origin : origin[k].pos = s[1] /\ origin[k].binding > s[2]
          /\ \E k \in DOMAIN origin : origin[k].pos > s[1]

\* C16: during a run of a loop the identifier sequence, the remote dataset and
\* the client configuration (endpoint, response format, query) stay as they
\* were before the run, and the table changes only by an append.
C16_OnlyTableChanges ==
    [][(cell \in LoopCells /\ pc # "start") =>
          /\ sparql' = sparql
          /\ remote' = remote
          /\ viaf_id' = viaf_id /\ viaf_ids' = viaf_ids
          /\ importantPeople' # importantPeople =>
                (HasBinding /\ Len(importantPeople') = Len(importantPeople) + 1)]_vars

\* C17: every row appended by the file-driven loop has its three fields bound
\* and non-empty, each to the value of the binding it came from, which had all
\* three variables.
C17_FileRowsComplete ==
    \A k \in DOMAIN origin :
       origin[k].cell = "file" =>
          /\ DOMAIN importantPeople[k] = {"Wikidata_URI", "name", "wikipedia_URL"}
          /\ importantPeople[k].Wikidata_URI # ""
          /\ importantPeople[k].name # ""
          /\ importantPeople[k].wikipedia_URL # ""
          /\ \A r \in ResponseOf(origin[k]) :
                {"person", "personLabel", "wparticle"}
                   \subseteq DOMAIN respLog[r].bindings[origin[k].binding]

\* C17 witness: the file-driven table holds a row while a binding lacking a
\* field was passed over.
C17_Witness ==
    /\ cell = "done" /\ skipped # {}
    /\ \E k \in DOMAIN origin : origin[k].cell = "file"

\* the queries a cell has sent, in order
CellQueries(c) == SelectSeq(queryLog, LAMBDA e : e.cell = c)

\* the first n queries of cell c are those of positions 1..n of its list, one each
QueriesInOrder(c, n) ==
    /\ Len(CellQueries(c)) = n
    /\ \A k \in 1..n :
          /\ CellQueries(c)[k].pos = k
          /\ CellQueries(c)[k].query.literal = LoopList(c)[k]

\* the loops that ran to their end
CellsBefore(c) ==
    CASE c = "print" -> {}
      [] c = "table" -> {"print"}
      [] c \in {"link"} -> {"print", "table"}
      [] c \in {"read_csv", "extract", "file"} -> {"print", "table", "link"}
      [] OTHER -> {"print", "table", "link", "file"}

Terminated == cell = "done" \/ error # "none"

\* C18: a run over a sequence of length n ends, and when no lookup raised it
\* has issued exactly n queries, the k-th for position k; while a loop runs it
\* has issued one query for each of the i positions taken, in order.
C18_OneQueryPerPosition ==
    /\ [](\A c \in CellsBefore(cell) : QueriesInOrder(c, Len(LoopList(c))))
    /\ []((cell \in LoopCells /\ pc # "start") => QueriesInOrder(cell, i))
    /\ <>Terminated

\* C18 witness: the file-driven loop has ended without a raise over a column
\* of at least two rows holding a repeated identifier.
C18_Witness ==
    /\ cell = "done" /\ Len(viaf_ids) >= 2
    /\ \E a, b \in DOMAIN viaf_ids : a < b /\ viaf_ids[a] = viaf_ids[b]
    /\ Len(CellQueries("file")) = Len(viaf_ids)

\* C19: while the iteration for identifier f has its query in flight or its
\* bindings in hand, the query the shared client holds and has sent is the one
\* built around f, the response in hand answers that query, and every row of
\* the table came from the response to the query of its own identifier.
C19_QueryEmbedsCurrentIdentifier ==
    /\ (cell \in LoopCells /\ pc \in {"query", "bind"}) =>
          /\ f = LoopList(cell)[i]
          /\ sparql.queryString = QueryString(cell, f)
          /\ queryLog[Len(queryLog)].query = sparql.queryString
          /\ inflight # <<>> => Head(inflight).literal = f
          /\ pc = "bind" =>
                /\ respLog[Len(respLog)].query.literal = f
                /\ respLog[Len(respLog)].pos = i
                /\ Bindings(result1) = respLog[Len(respLog)].bindings
    /\ \A k \in DOMAIN origin :
          \A r \in ResponseOf(origin[k]) :
             respLog[r].query = QueryString(origin[k].cell,
                                            LoopList(origin[k].cell)[origin[k].pos])

\* C19 witness: the file-driven loop holds the bindings of an identifier that
\* differs from the one before it, whose rows are already in the table.
C19_Witness ==
    /\ cell = "file" /\ pc = "bind" /\ i >= 2 /\ HasBinding
    /\ viaf_ids[i] # viaf_ids[i - 1]
    /\ \E k \in DOMAIN origin : origin[k].cell = "file" /\ origin[k].pos = i - 1

\* C20: every run of a table-building loop starts from an empty row list:
\* right after the reset the list is empty, while the loop runs every row of the
\* list was built from a binding of a response received in that same run, and
\* the table of the finished file-driven run holds rows of that run only.
C20_RunStartsEmpty ==
    /\ (cell \in TableCells /\ pc # "start") =>
          /\ (pc = "for" /\ i = 0) => importantPeople = <<>>
          /\ Len(origin) = Len(importantPeople)
          /\ \A k \in DOMAIN importantPeople :
                /\ origin[k].cell = cell
                /\ \E r \in CellResponses :
                      /\ respLog[r].pos = origin[k].pos
                      /\ origin[k].binding \in DOMAIN respLog[r].bindings
                      /\ importantPeople[k] =
                            BuildRow(cell, respLog[r].bindings[origin[k].binding])
    /\ cell = "done" =>
          /\ Len(df) = Len(origin)
          /\ \A k \in DOMAIN origin : origin[k].cell = "file"

\* C20 witness: the file-driven run has appended a row while the table of the
\* earlier run with the secondary link still holds rows.
C20_Witness ==
    /\ cell = "file" /\ pc = "bind" /\ importantPeople # <<>>
    /\ df # <<>> /\ Len(importantPeople) < Len(df)

\* C21: once the identifier list has been extracted it has one string per row
\* of the source column, in row order: the element at position k is the string
\* form of the cell in row k ("nan" for a missing cell), and rows holding the
\* same value yield the same string at each of their positions.
C21_ExtractionPreservesShape ==
    cell \in {"file", "done"} =>
       LET col == df1["VIAF_ID"]
       IN /\ Len(viaf_ids) = Len(col)
          /\ \A k \in DOMAIN col :
                /\ viaf_ids[k] \in FileIds \cup {"nan"}
                /\ viaf_ids[k] = AsStr(col[k])
                /\ col[k] # NaN => viaf_ids[k] = col[k].val
                /\ col[k] = NaN => viaf_ids[k] = "nan"
          /\ \A p, q \in DOMAIN col : col[p] = col[q] => viaf_ids[p] = viaf_ids[q]

\* C21 witness: the list was extracted from a column holding a missing cell
\* before a value that occurs in two rows.
C21_Witness ==
    /\ cell = "file"
    /\ \E n, p, q \in DOMAIN df1["VIAF_ID"] :
          /\ n < p /\ p < q
          /\ df1["VIAF_ID"][n] = NaN
          /\ df1["VIAF_ID"][p] # NaN
          /\ df1["VIAF_ID"][p] = df1["VIAF_ID"][q]
          /\ viaf_ids[p] = viaf_ids[q]

====
